---- MODULE Spec2Model ----
(***************************************************************************)
(* Carespace JavaScript SDK: the HTTP client wrapper (client.js), its      *)
(* error taxonomy (errors.js) and the calls that reach them.               *)
(*                                                                         *)
(* A JavaScript value is a record tagged by its type in field t.  A string *)
(* is the tuple of its text chunks, so '' is Str(<<>>) and concatenation   *)
(* (a template literal) is \o.                                             *)
(***************************************************************************)
EXTENDS Integers, Sequences, FiniteSets, TLC

VARIABLES
  apiKey,      \* CarespaceClient.apiKey, the one mutable configuration field
  transport,   \* what axios.create was given: baseURL, timeout, headers
  keyHistory,  \* every value apiKey has held since construction
  reqs,        \* the calls: arguments, request headers, delivery, outcome
  api,         \* the CarespaceAPI object: its client and its facades' clients
  via,         \* per call, the facade method that made it (null: made directly)
  settings     \* the config object the constructor was given

vars == <<apiKey, transport, keyHistory, reqs, api, via, settings>>

----------------------------------------------------------------------------
(* JavaScript values *)

undefined == [t |-> "undefined"]
null == [t |-> "null"]
Str(s) == [t |-> "string", v |-> s]
Num(n) == [t |-> "number", v |-> n]
Arr(a) == [t |-> "array", v |-> a]

\* An object literal {} used as the options argument.
EmptyObject == [t |-> "object", headers |-> undefined]

\* A response body object; a key the server did not send is undefined.
Body(m, e, errs) == [t |-> "body", message |-> m, error |-> e, errors |-> errs]

\* ToBoolean: undefined, null, '' and 0 are falsy, everything else is truthy.
Truthy(x) ==
  CASE x.t \in {"undefined", "null"} -> FALSE
    [] x.t = "string" -> x.v # <<>>
    [] x.t = "number" -> x.v # 0
    [] OTHER -> TRUE

\* a || b
Or(a, b) == IF Truthy(a) THEN a ELSE b

\* A default parameter value applies only when the argument is undefined.
Default(x, d) == IF x = undefined THEN d ELSE x

\* data?.message, data?.error: undefined for null, undefined and primitives.
OptMessage(data) == IF data.t = "body" THEN data.message ELSE undefined
OptError(data) == IF data.t = "body" THEN data.error ELSE undefined

----------------------------------------------------------------------------
(* errors.js: the error classes *)

\* A hierarchy in which every class extends the base class directly.
ExtendsFlat ==
  [ CarespaceError      |-> "Error",
    AuthenticationError |-> "CarespaceError",
    AuthorizationError  |-> "CarespaceError",
    NotFoundError       |-> "CarespaceError",
    ValidationError     |-> "CarespaceError",
    RateLimitError      |-> "CarespaceError",
    ServerError         |-> "CarespaceError",
    NetworkError        |-> "CarespaceError",
    TimeoutError        |-> "CarespaceError",
    AxiosError          |-> "Error",
    Error               |-> "Object" ]

\* class C extends Extends[C]
Extends ==
  [ CarespaceError      |-> "Error",
    AuthenticationError |-> "CarespaceError",
    AuthorizationError  |-> "CarespaceError",
    NotFoundError       |-> "CarespaceError",
    ValidationError     |-> "CarespaceError",
    RateLimitError      |-> "CarespaceError",
    ServerError         |-> "CarespaceError",
    NetworkError        |-> "CarespaceError",
    TimeoutError        |-> "NetworkError",
    AxiosError          |-> "Error",
    Error               |-> "Object" ]

RECURSIVE ProtoChain(_)
ProtoChain(c) == IF c \in DOMAIN Extends THEN {c} \cup ProtoChain(Extends[c]) ELSE {c}

\* e instanceof C
InstanceOf(e, C) == C \in ProtoChain(e.class)

CarespaceError(message, statusCode, response) ==
  [ class      |-> "CarespaceError",
    name       |-> "CarespaceError",
    message    |-> message,
    statusCode |-> Default(statusCode, null),
    response   |-> Default(response, null),
    errors     |-> undefined ]

AuthenticationError(message, statusCode, response) ==
  [ CarespaceError(Default(message, Str(<<"Authentication failed">>)),
                   Default(statusCode, Num(401)), Default(response, null))
    EXCEPT !.class = "AuthenticationError", !.name = "AuthenticationError" ]

AuthorizationError(message, statusCode, response) ==
  [ CarespaceError(Default(message, Str(<<"Access denied">>)),
                   Default(statusCode, Num(403)), Default(response, null))
    EXCEPT !.class = "AuthorizationError", !.name = "AuthorizationError" ]

NotFoundError(message, statusCode, response) ==
  [ CarespaceError(Default(message, Str(<<"Resource not found">>)),
                   Default(statusCode, Num(404)), Default(response, null))
    EXCEPT !.class = "NotFoundError", !.name = "NotFoundError" ]

ValidationError(message, statusCode, response, errors) ==
  [ CarespaceError(Default(message, Str(<<"Validation failed">>)),
                   Default(statusCode, Num(400)), Default(response, null))
    EXCEPT !.class = "ValidationError", !.name = "ValidationError",
           !.errors = Default(errors, Arr(<<>>)) ]

RateLimitError(message, statusCode, response) ==
  [ CarespaceError(Default(message, Str(<<"Rate limit exceeded">>)),
                   Default(statusCode, Num(429)), Default(response, null))
    EXCEPT !.class = "RateLimitError", !.name = "RateLimitError" ]

ServerError(message, statusCode, response) ==
  [ CarespaceError(Default(message, Str(<<"Internal server error">>)),
                   Default(statusCode, Num(500)), Default(response, null))
    EXCEPT !.class = "ServerError", !.name = "ServerError" ]

\* A NetworkError that reports the status 0 of a request without response.
NetworkErrorStatusZero(message, response) ==
  [ CarespaceError(Default(message, Str(<<"Network error">>)), Num(0),
                   Default(response, null))
    EXCEPT !.class = "NetworkError", !.name = "NetworkError" ]

NetworkError(message, response) ==
  [ CarespaceError(Default(message, Str(<<"Network error">>)), null,
                   Default(response, null))
    EXCEPT !.class = "NetworkError", !.name = "NetworkError" ]

TimeoutError(message, response) ==
  [ NetworkError(Default(message, Str(<<"Request timeout">>)),
                 Default(response, null))
    EXCEPT !.class = "TimeoutError", !.name = "TimeoutError" ]

\* createError without the case for 422.
createErrorWithout422(status, message, response) ==
  CASE status = 401 -> AuthenticationError(message, Num(status), Default(response, null))
    [] status = 403 -> AuthorizationError(message, Num(status), Default(response, null))
    [] status = 404 -> NotFoundError(message, Num(status), Default(response, null))
    [] status = 400 ->
         ValidationError(message, Num(status), Default(response, null), undefined)
    [] status = 429 -> RateLimitError(message, Num(status), Default(response, null))
    [] status \in {500, 502, 503, 504} ->
         ServerError(message, Num(status), Default(response, null))
    [] OTHER -> CarespaceError(message, Num(status), Default(response, null))

\* createError leaving the status to each class's default.
createErrorClassDefault(status, message, response) ==
  CASE status = 401 -> AuthenticationError(message, undefined, Default(response, null))
    [] status = 403 -> AuthorizationError(message, undefined, Default(response, null))
    [] status = 404 -> NotFoundError(message, undefined, Default(response, null))
    [] status \in {400, 422} ->
         ValidationError(message, undefined, Default(response, null), undefined)
    [] status = 429 -> RateLimitError(message, undefined, Default(response, null))
    [] status \in {500, 502, 503, 504} ->
         ServerError(message, undefined, Default(response, null))
    [] OTHER -> CarespaceError(message, undefined, Default(response, null))

\* createError(status, message, response = null): the switch on status.
createError(status, message, response) ==
  CASE status = 401 -> AuthenticationError(message, Num(status), Default(response, null))
    [] status = 403 -> AuthorizationError(message, Num(status), Default(response, null))
    [] status = 404 -> NotFoundError(message, Num(status), Default(response, null))
    [] status \in {400, 422} ->
         ValidationError(message, Num(status), Default(response, null), undefined)
    [] status = 429 -> RateLimitError(message, Num(status), Default(response, null))
    [] status \in {500, 502, 503, 504} ->
         ServerError(message, Num(status), Default(response, null))
    [] OTHER -> CarespaceError(message, Num(status), Default(response, null))

----------------------------------------------------------------------------
(* client.js: construction *)

HeaderNames == {"Content-Type", "Authorization", "X-Custom-Header"}

\* An object of headers: a header that is not set is undefined.
NoHeaders == [h \in HeaderNames |-> undefined]

\* { ...extra, ...base }: the spread written the other way round.
SpreadBaseWins(base, extra) ==
  IF extra = undefined THEN base
  ELSE [h \in HeaderNames |-> IF base[h] # undefined THEN base[h] ELSE extra[h]]

\* { ...base, ...extra }: an entry of extra wins on a key collision.
Spread(base, extra) ==
  IF extra = undefined THEN base
  ELSE [h \in HeaderNames |-> IF extra[h] # undefined THEN extra[h] ELSE base[h]]

DefaultBaseURL == Str(<<"https://api-dev.carespace.ai">>)
DefaultTimeout == 30000
JsonHeaders == [NoHeaders EXCEPT !["Content-Type"] = Str(<<"application/json">>)]

\* A call that has not been made.
IdleReq ==
  [ pc       |-> "idle",
    call     |-> undefined,
    method   |-> undefined,
    url      |-> undefined,
    data     |-> undefined,
    options  |-> undefined,
    headers  |-> NoHeaders,
    delivery |-> undefined,
    outcome  |-> [state |-> "pending"],
    sends    |-> 0 ]

\* new CarespaceClient(config), with nreq calls still to be made.
Constructor(config, nreq) ==
  /\ apiKey = config.apiKey
  /\ transport =
       [ baseURL |-> Or(config.baseURL, DefaultBaseURL),
         timeout |-> Or(config.timeout, Num(DefaultTimeout)),
         headers |-> Spread(JsonHeaders, config.headers) ]
  /\ keyHistory = {config.apiKey}
  /\ reqs = [r \in 1..nreq |-> IdleReq]
  /\ settings = config

\* A client that application code constructed itself: no CarespaceAPI object.
Standalone ==
  /\ api = null
  /\ via = [r \in DOMAIN reqs |-> null]

\* setApiKey that also rewrites the header of every request already built.
setApiKeyRewriting(key) ==
  /\ apiKey' = key
  /\ keyHistory' = keyHistory \cup {key}
  /\ reqs' = [r \in DOMAIN reqs |->
       IF reqs[r].headers["Authorization"] # undefined /\ key.v # <<>>
       THEN [reqs[r] EXCEPT !.headers["Authorization"] = Str(<<"Bearer ">> \o key.v)]
       ELSE reqs[r]]
  /\ UNCHANGED <<transport, api, via, settings>>

\* setApiKey that also writes the key into the default headers of the transport.
setApiKeyOnDefaults(key) ==
  /\ apiKey' = key
  /\ keyHistory' = keyHistory \cup {key}
  /\ transport' = [transport EXCEPT !.headers["Authorization"] =
                     IF key.t = "string" THEN Str(<<"Bearer ">> \o key.v) ELSE undefined]
  /\ UNCHANGED <<reqs, api, via, settings>>

\* setApiKey(apiKey)
setApiKey(key) ==
  /\ apiKey' = key
  /\ keyHistory' = keyHistory \cup {key}
  /\ UNCHANGED <<transport, reqs, api, via, settings>>

----------------------------------------------------------------------------
(* client.js: the interceptors *)

\* The request interceptor without its test of the key.
requestFulfilledUnguarded(headers) ==
  [headers EXCEPT !["Authorization"] =
     Str(<<"Bearer ">> \o (IF apiKey.t = "string" THEN apiKey.v ELSE <<apiKey.t>>))]

\* The request interceptor testing the key against undefined only.
requestFulfilledIfDefined(headers) ==
  IF apiKey # undefined
  THEN [headers EXCEPT !["Authorization"] = Str(<<"Bearer ">> \o apiKey.v)]
  ELSE headers

\* Request interceptor, fulfilled handler: the headers it returns.
requestFulfilled(headers) ==
  IF Truthy(apiKey)
  THEN [headers EXCEPT !["Authorization"] = Str(<<"Bearer ">> \o apiKey.v)]
  ELSE headers

\* Response interceptor, fulfilled handler.
responseFulfilled(response) == response

\* `HTTP ${status}: ${error.response.statusText}`
HttpStatusMessage(status, statusText) ==
  Str(<<"HTTP ", ToString(status), ": ">> \o statusText.v)

\* const errorMessage = data?.message || data?.error || `HTTP ...`
errorMessageSwapped(response) ==
  Or(Or(OptError(response.data), OptMessage(response.data)),
     HttpStatusMessage(response.status, response.statusText))

errorMessage(response) ==
  Or(Or(OptMessage(response.data), OptError(response.data)),
     HttpStatusMessage(response.status, response.statusText))

\* The request was made but no response was received.
NoResponseErrorOtherCode(error) ==
  IF error.code = Str(<<"ETIMEDOUT">>)
  THEN TimeoutError(Str(<<"Request timeout">>), undefined)
  ELSE NetworkError(Str(<<"Network error - no response received">>), undefined)

NoResponseError(error) ==
  IF error.code = Str(<<"ECONNABORTED">>)
  THEN TimeoutError(Str(<<"Request timeout">>), undefined)
  ELSE NetworkError(Str(<<"Network error - no response received">>), undefined)

\* Something happened in setting up the request.
SetupErrorUnwrapped(error) == NetworkError(error.message, undefined)

SetupError(error) ==
  NetworkError(Str(<<"Request setup error: ">> \o error.message.v), undefined)

\* Response interceptor, rejected handler: the error it throws.
responseRejectedPassThrough(error) ==
  IF Truthy(error.response)
  THEN createError(error.response.status, errorMessage(error.response), error.response)
  ELSE error

responseRejected(error) ==
  IF Truthy(error.response)
  THEN createError(error.response.status, errorMessage(error.response), error.response)
  ELSE IF Truthy(error.request)
  THEN NoResponseError(error)
  ELSE SetupError(error)

----------------------------------------------------------------------------
(* client.js: the verbs.  Each awaits one transport request. *)

\* this.client.<method>(url, data, options): the request handed to the transport.
Request(method, url, data, options) ==
  [ IdleReq EXCEPT
      !.pc = "called",
      !.method = method,
      !.url = url,
      !.data = data,
      !.options = options,
      !.headers = Spread(transport.headers, options.headers) ]

\* The arguments the caller gave to a verb of the client.
Invocation(verb, url, data, options) ==
  [verb |-> verb, url |-> url, data |-> data, options |-> options]

\* Call r is made: `call` is what the caller passed, `request` what the verb
\* hands to the transport.  Calls are numbered in the order they are made.
Call(r, call, request) ==
  /\ reqs[r].pc = "idle"
  /\ \A q \in DOMAIN reqs : q < r => reqs[q].pc # "idle"
  /\ reqs' = [reqs EXCEPT ![r] = [request EXCEPT !.call = call]]
  /\ UNCHANGED <<apiKey, transport, keyHistory, api, settings>>

\* A call of a verb that application code makes on the client itself.
Direct(verb) == verb /\ UNCHANGED via

get(r, url, options) ==
  Call(r, Invocation("get", url, undefined, options),
       Request(Str(<<"get">>), url, undefined, Default(options, EmptyObject)))

post(r, url, data, options) ==
  Call(r, Invocation("post", url, data, options),
       Request(Str(<<"post">>), url, data, Default(options, EmptyObject)))

put(r, url, data, options) ==
  Call(r, Invocation("put", url, data, options),
       Request(Str(<<"put">>), url, data, Default(options, EmptyObject)))

\* patch that sends its request as a PUT.
patchAsPut(r, url, data, options) ==
  Call(r, Invocation("patch", url, data, options),
       Request(Str(<<"put">>), url, data, Default(options, EmptyObject)))

patch(r, url, data, options) ==
  Call(r, Invocation("patch", url, data, options),
       Request(Str(<<"patch">>), url, data, Default(options, EmptyObject)))

delete(r, url, options) ==
  Call(r, Invocation("delete", url, undefined, options),
       Request(Str(<<"delete">>), url, undefined, Default(options, EmptyObject)))

\* The request interceptor runs on the request of call r.
RequestInterceptor(r) ==
  /\ reqs[r].pc = "called"
  /\ reqs' = [reqs EXCEPT ![r].pc = "intercepted",
                          ![r].headers = requestFulfilled(reqs[r].headers)]
  /\ UNCHANGED <<apiKey, transport, keyHistory, api, via, settings>>

\* `return response.data` after the await, or the rejection the await rethrows.
\* A verb that returns the transport's response instead of its body.
SettledWholeResponse(delivery) ==
  IF delivery.t = "response"
  THEN [state |-> "fulfilled", value |-> responseFulfilled(delivery)]
  ELSE [state |-> "rejected", error |-> responseRejected(delivery)]

Settled(delivery) ==
  IF delivery.t = "response"
  THEN [state |-> "fulfilled", value |-> responseFulfilled(delivery).data]
  ELSE [state |-> "rejected", error |-> responseRejected(delivery)]

\* A client that keeps the transport's last answers in a field of the instance:
\* a call may then settle with the answer to another call.
SettleShared(r) ==
  /\ reqs[r].pc = "delivered"
  /\ \E q \in DOMAIN reqs :
       /\ reqs[q].pc \in {"delivered", "settled"}
       /\ reqs' = [reqs EXCEPT ![r].pc = "settled",
                               ![r].outcome = Settled(reqs[q].delivery)]
  /\ UNCHANGED <<apiKey, transport, keyHistory, api, via, settings>>

\* A client whose call stays pending when the transport reports a timeout.
SettleUnlessAborted(r) ==
  /\ reqs[r].pc = "delivered"
  /\ ~(/\ reqs[r].delivery.t = "error"
        /\ reqs[r].delivery.code = Str(<<"ECONNABORTED">>))
  /\ reqs' = [reqs EXCEPT ![r].pc = "settled",
                          ![r].outcome = Settled(reqs[r].delivery)]
  /\ UNCHANGED <<apiKey, transport, keyHistory, api, via, settings>>

\* The response interceptor and the verb's continuation run for call r.
Settle(r) ==
  /\ reqs[r].pc = "delivered"
  /\ reqs' = [reqs EXCEPT ![r].pc = "settled",
                          ![r].outcome = Settled(reqs[r].delivery)]
  /\ UNCHANGED <<apiKey, transport, keyHistory, api, via, settings>>

----------------------------------------------------------------------------
(* The transport (axios), as the client sees it *)

Response(status, statusText, data) ==
  [t |-> "response", status |-> status, statusText |-> statusText, data |-> data]

\* The rejection the transport hands to the response interceptor.
AxiosError(message, code, request, response) ==
  [ t        |-> "error",
    class    |-> "AxiosError",
    message  |-> message,
    code     |-> code,
    request  |-> request,
    response |-> response ]

ClientRequest == [t |-> "request"]

\* The transport sends the request of call r.
Dispatch(r) ==
  /\ reqs[r].pc = "intercepted"
  /\ reqs' = [reqs EXCEPT ![r].pc = "sent", ![r].sends = @ + 1]
  /\ UNCHANGED <<apiKey, transport, keyHistory, api, via, settings>>

\* The transport fails before it sends anything: no request, no response.
SetupFails(r, message) ==
  /\ reqs[r].pc = "intercepted"
  /\ reqs' = [reqs EXCEPT ![r].pc = "delivered",
                          ![r].delivery = AxiosError(message, undefined, undefined, undefined)]
  /\ UNCHANGED <<apiKey, transport, keyHistory, api, via, settings>>

\* A response arrives: a 2xx status resolves, any other status rejects.
Responds(r, status, statusText, data) ==
  /\ reqs[r].pc = "sent"
  /\ LET response == Response(status, statusText, data)
     IN  reqs' = [reqs EXCEPT
           ![r].pc = "delivered",
           ![r].delivery =
             IF status >= 200 /\ status < 300
             THEN response
             ELSE AxiosError(Str(<<"Request failed with status code ", ToString(status)>>),
                             Str(<<IF status < 500 THEN "ERR_BAD_REQUEST" ELSE "ERR_BAD_RESPONSE">>),
                             ClientRequest, response)]
  /\ UNCHANGED <<apiKey, transport, keyHistory, api, via, settings>>

\* No response arrives: the transport gives up with a failure code.
NoResponse(r, code) ==
  /\ reqs[r].pc = "sent"
  /\ reqs' = [reqs EXCEPT
        ![r].pc = "delivered",
        ![r].delivery = AxiosError(Str(<<"no response">>), code, ClientRequest, undefined)]
  /\ UNCHANGED <<apiKey, transport, keyHistory, api, via, settings>>

----------------------------------------------------------------------------
(* Inputs *)

MaxReq == 2

Key1 == Str(<<"abc">>)
Key2 == Str(<<"xyz">>)

\* Constructor configurations: without and with an API key.
Config(key) ==
  [baseURL |-> undefined, apiKey |-> key, timeout |-> undefined, headers |-> undefined]
Configs == {Config(undefined), Config(Key1)}

\* Keys given to setApiKey.
Keys == {Str(<<>>), Key1, Key2}

Urls == {Str(<<"/users">>), Str(<<"/programs">>)}
Payloads == {Body(Str(<<"hello">>), undefined, undefined)}

\* The options argument: left out, or carrying a header for this request.
CustomOptions ==
  [ t |-> "object",
    headers |-> [NoHeaders EXCEPT !["X-Custom-Header"] = Str(<<"value">>)] ]
OptionsInputs == {undefined, CustomOptions}

\* Status codes a server sends: success, every mapped code, and unmapped ones.
Statuses == {200, 204, 400, 401, 403, 404, 418, 422, 429, 500, 501, 502, 503, 504, 599}
StatusTexts == {Str(<<>>), Str(<<"Not Found">>)}

\* Response bodies: none, an empty text, and objects with or without each key.
Bodies ==
  {null, Str(<<>>)} \cup
  { Body(m, e, errs) :
      m \in {undefined, Str(<<>>), Str(<<"not found">>)},
      e \in {undefined, Str(<<"bad request">>)},
      errs \in {undefined, Arr(<<"email invalid">>)} }

\* Failure codes of a request that got no response.
Codes == {Str(<<"ECONNABORTED">>), Str(<<"ERR_NETWORK">>), Str(<<"ETIMEDOUT">>), undefined}

SetupMessages == {Str(<<"Invalid URL">>), Str(<<>>)}

----------------------------------------------------------------------------
(* Specification: concurrent calls on one client, with key rotation *)

Init == \E config \in Configs : Constructor(config, MaxReq) /\ Standalone

\* What the server holds at an endpoint, and how it refuses an endpoint.
ServerData(url) == Arr(url.v)
ServerRefusal(url) == Body(Str(<<"no ">> \o url.v), undefined, undefined)

Next ==
  \/ \E key \in Keys : setApiKey(key)
  \/ \E r \in DOMAIN reqs, url \in Urls : Direct(get(r, url, undefined))
  \/ \E r \in DOMAIN reqs : RequestInterceptor(r)
  \/ \E r \in DOMAIN reqs : Dispatch(r)
  \/ \E r \in DOMAIN reqs : Responds(r, 200, Str(<<"OK">>), ServerData(reqs[r].url))
  \/ \E r \in DOMAIN reqs : Responds(r, 404, Str(<<"Not Found">>), ServerRefusal(reqs[r].url))
  \/ \E r \in DOMAIN reqs : Settle(r)

Spec == Init /\ [][Next]_vars

----------------------------------------------------------------------------
(* Specification: one call, every verb, every response and failure *)

InitErrors == \E config \in Configs : Constructor(config, 1) /\ Standalone

NextErrors ==
  \/ \E url \in Urls, options \in OptionsInputs : Direct(get(1, url, options))
  \/ \E url \in Urls, data \in Payloads, options \in OptionsInputs :
       Direct(post(1, url, data, options))
  \/ \E url \in Urls, data \in Payloads, options \in OptionsInputs :
       Direct(put(1, url, data, options))
  \/ \E url \in Urls, data \in Payloads, options \in OptionsInputs :
       Direct(patch(1, url, data, options))
  \/ \E url \in Urls, options \in OptionsInputs : Direct(delete(1, url, options))
  \/ RequestInterceptor(1)
  \/ Dispatch(1)
  \/ \E message \in SetupMessages : SetupFails(1, message)
  \/ \E status \in Statuses, statusText \in StatusTexts, data \in Bodies :
       Responds(1, status, statusText, data)
  \/ \E code \in Codes : NoResponse(1, code)
  \/ Settle(1)

SpecErrors == InitErrors /\ [][NextErrors]_vars

----------------------------------------------------------------------------
(* api/base.js: BaseAPI, the URL builders and the verbs of a facade *)

Bool(b) == [t |-> "boolean", v |-> b]

\* An object literal used as a mapping: its entries in the order of Object.keys.
Entry(key, value) == [key |-> key, value |-> value]
Obj(entries) == [t |-> "mapping", entries |-> entries]

\* String(value), as encodeURIComponent and URLSearchParams.append apply it.
RECURSIVE StringOf(_)
RECURSIVE Join(_)
Join(items) ==
  IF items = <<>> THEN <<>>
  ELSE (IF Head(items).t \in {"null", "undefined"} THEN <<>> ELSE StringOf(Head(items)))
       \o (IF Len(items) > 1 THEN <<",">> \o Join(Tail(items)) ELSE <<>>)

StringOf(x) ==
  CASE x.t = "string" -> x.v
    [] x.t = "number" -> <<ToString(x.v)>>
    [] x.t = "boolean" -> <<IF x.v THEN "true" ELSE "false">>
    [] x.t = "null" -> <<"null">>
    [] x.t = "undefined" -> <<"undefined">>
    [] x.t = "array" -> Join(x.v)

\* Percent-encoding of one chunk of a value.  A chunk of a value is either one
\* of the characters below or a run of unreserved characters, which stays as
\* it is.
PercentEncoded(c) ==
  CASE c = " " -> "%20"
    [] c = "/" -> "%2F"
    [] c = "?" -> "%3F"
    [] c = "&" -> "%26"
    [] c = "=" -> "%3D"
    [] c = "+" -> "%2B"
    [] c = "," -> "%2C"
    [] c = "@" -> "%40"
    [] c = "{" -> "%7B"
    [] c = "}" -> "%7D"
    [] OTHER -> c

\* encodeURIComponent that returns the text as it is.
encodeURIComponentRaw(value) == StringOf(value)

encodeURIComponent(value) ==
  [i \in 1..Len(StringOf(value)) |-> PercentEncoded(StringOf(value)[i])]

\* The application/x-www-form-urlencoded serializer of URLSearchParams: as
\* percent-encoding, but a space becomes '+'.
FormEncoded(text) ==
  [i \in 1..Len(text) |-> IF text[i] = " " THEN "+" ELSE PercentEncoded(text[i])]

\* String.prototype.indexOf, counted from 1; 0 when pattern does not occur.
IndexOf(s, pattern) ==
  LET hits == { i \in 1..(Len(s) - Len(pattern) + 1) :
                  SubSeq(s, i, i + Len(pattern) - 1) = pattern }
  IN IF hits = {} THEN 0 ELSE CHOOSE i \in hits : \A j \in hits : i <= j

\* String.prototype.replaceAll: every occurrence, left to right.
RECURSIVE replaceAll(_, _, _)
replaceAll(s, pattern, replacement) ==
  LET i == IndexOf(s, pattern)
  IN IF i = 0 THEN s
     ELSE SubSeq(s, 1, i - 1) \o replacement
          \o replaceAll(SubSeq(s, i + Len(pattern), Len(s)), pattern, replacement)

\* String.prototype.replace with a string pattern: the first occurrence only.
replace(s, pattern, replacement) ==
  LET i == IndexOf(s, pattern)
  IN IF i = 0 THEN s
     ELSE SubSeq(s, 1, i - 1) \o replacement \o SubSeq(s, i + Len(pattern), Len(s))

\* `{${key}}`
Placeholder(key) == <<"{">> \o key \o <<"}">>

\* BaseAPI.constructor(client)
BaseAPI(client) == [client |-> client]

\* The forEach of buildUrl over Object.keys(params).
RECURSIVE ReplaceKeys(_, _)
ReplaceKeys(url, entries) ==
  IF entries = <<>> THEN url
  ELSE ReplaceKeys(replace(url, Placeholder(Head(entries).key),
                           encodeURIComponent(Head(entries).value)),
                   Tail(entries))

\* buildUrl written over the placeholders of the path instead of the keys of
\* params: a placeholder without a key gets the text of undefined.
buildUrlByPlaceholder(path, params) ==
  LET url == ReplaceKeys(path.v, Default(params, Obj(<<>>)).entries)
      open == IndexOf(url, <<"{">>)
      close == IndexOf(url, <<"}">>)
  IN IF open = 0 \/ close < open THEN Str(url)
     ELSE Str(SubSeq(url, 1, open - 1) \o encodeURIComponent(undefined)
              \o SubSeq(url, close + 1, Len(url)))

\* buildUrl(path, params = {})
buildUrl(path, params) == Str(ReplaceKeys(path.v, Default(params, Obj(<<>>)).entries))

\* The test of buildQueryParams without its '' case.
AppendedUnlessNullish(value) == value # undefined /\ value # null

\* value !== undefined && value !== null && value !== ''
Appended(value) == value # undefined /\ value # null /\ value # Str(<<>>)

\* The append that applies the test of the entry to every item of an array too.
PairsOfKeptItems(entry) ==
  IF ~Appended(entry.value) THEN <<>>
  ELSE IF entry.value.t = "array"
       THEN LET kept == SelectSeq(entry.value.v, Appended)
            IN [i \in 1..Len(kept) |-> <<entry.key, StringOf(kept[i])>>]
       ELSE << <<entry.key, StringOf(entry.value)>> >>

\* What one entry appends to searchParams: [name, value] pairs, the value as
\* a string, one pair per element when the value is an array.
PairsOf(entry) ==
  IF ~Appended(entry.value) THEN <<>>
  ELSE IF entry.value.t = "array"
       THEN [i \in 1..Len(entry.value.v) |-> <<entry.key, StringOf(entry.value.v[i])>>]
       ELSE << <<entry.key, StringOf(entry.value)>> >>

\* The forEach of buildQueryParams that puts each entry before the earlier ones.
RECURSIVE SearchParamsReversed(_)
SearchParamsReversed(entries) ==
  IF entries = <<>> THEN <<>>
  ELSE SearchParamsReversed(Tail(entries)) \o PairsOf(Head(entries))

\* The forEach of buildQueryParams over Object.keys(params).
RECURSIVE SearchParams(_)
SearchParams(entries) ==
  IF entries = <<>> THEN <<>>
  ELSE PairsOf(Head(entries)) \o SearchParams(Tail(entries))

\* searchParams.toString()
RECURSIVE Serialized(_)
Serialized(pairs) ==
  IF pairs = <<>> THEN <<>>
  ELSE FormEncoded(Head(pairs)[1]) \o <<"=">> \o FormEncoded(Head(pairs)[2])
       \o (IF Len(pairs) > 1 THEN <<"&">> \o Serialized(Tail(pairs)) ELSE <<>>)

\* buildQueryParams that always writes the '?'.
buildQueryParamsAlwaysMarked(params) ==
  Str(<<"?">> \o Serialized(SearchParams(Default(params, Obj(<<>>)).entries)))

\* buildQueryParams(params = {})
buildQueryParams(params) ==
  LET queryString == Serialized(SearchParams(Default(params, Obj(<<>>)).entries))
  IN IF queryString # <<>> THEN Str(<<"?">> \o queryString) ELSE Str(<<>>)

\* get(path, params = {}, queryParams = {})
BaseAPI_get(r, path, params, queryParams) ==
  get(r, Str(buildUrl(path, params).v \o buildQueryParams(queryParams).v), undefined)

\* post(path, data, params = {})
BaseAPI_post(r, path, data, params) == post(r, buildUrl(path, params), data, undefined)

\* put that appends the query string of its third argument.
BaseAPI_putWithQuery(r, path, data, params) ==
  put(r, Str(buildUrl(path, params).v \o buildQueryParams(params).v), data, undefined)

\* put(path, data, params = {})
BaseAPI_put(r, path, data, params) == put(r, buildUrl(path, params), data, undefined)

\* patch(path, data, params = {})
BaseAPI_patch(r, path, data, params) == patch(r, buildUrl(path, params), data, undefined)

\* delete(path, params = {})
BaseAPI_delete(r, path, params) == delete(r, buildUrl(path, params), undefined)

\* Method `method` of facade f is called with `args`: this.client in its body
\* is the client that f holds.
Through(r, f, method, args, body) ==
  /\ body
  /\ via' = [via EXCEPT ![r] =
       [t |-> "facade", facade |-> f, client |-> api[f].client,
        method |-> method, args |-> args]]

----------------------------------------------------------------------------
(* api/auth.js: AuthAPI.  Every method is one post of BaseAPI. *)

login(r, credentials) ==
  BaseAPI_post(r, Str(<<"/auth/login">>), credentials, undefined)

logout(r) == BaseAPI_post(r, Str(<<"/auth/logout">>), undefined, undefined)

\* refreshToken that names the field of its body as its parameter is named.
refreshTokenCamelCase(r, token) ==
  BaseAPI_post(r, Str(<<"/auth/refresh">>),
               Obj(<<Entry(<<"refreshToken">>, token)>>), undefined)

refreshToken(r, token) ==
  BaseAPI_post(r, Str(<<"/auth/refresh">>),
               Obj(<<Entry(<<"refresh_token">>, token)>>), undefined)

forgotPassword(r, email) ==
  BaseAPI_post(r, Str(<<"/auth/forgot-password">>),
               Obj(<<Entry(<<"email">>, email)>>), undefined)

resetPassword(r, token, password) ==
  BaseAPI_post(r, Str(<<"/auth/reset-password">>),
               Obj(<<Entry(<<"token">>, token), Entry(<<"password">>, password)>>),
               undefined)

changePassword(r, currentPassword, newPassword) ==
  BaseAPI_post(r, Str(<<"/auth/change-password">>),
               Obj(<<Entry(<<"current_password">>, currentPassword),
                     Entry(<<"new_password">>, newPassword)>>),
               undefined)

verifyEmail(r, token) ==
  BaseAPI_post(r, Str(<<"/auth/verify-email">>),
               Obj(<<Entry(<<"token">>, token)>>), undefined)

resendVerification(r, email) ==
  BaseAPI_post(r, Str(<<"/auth/resend-verification">>),
               Obj(<<Entry(<<"email">>, email)>>), undefined)

----------------------------------------------------------------------------
(* api.js: CarespaceAPI, one client shared by four facades *)

\* The identity of an object made by `new`, by its order of construction.
Ref(n) == [t |-> "ref", object |-> n]

Facades == {"auth", "users", "clients", "programs"}

\* A constructor that makes a client of its own for every facade.
CarespaceAPIOwnClients(config) ==
  /\ Constructor(config, 1)
  /\ api = [ t |-> "CarespaceAPI",
             client |-> Ref(1),
             auth |-> BaseAPI(Ref(2)),
             users |-> BaseAPI(Ref(3)),
             clients |-> BaseAPI(Ref(4)),
             programs |-> BaseAPI(Ref(5)) ]
  /\ via = [r \in DOMAIN reqs |-> null]

\* constructor(config = {})
CarespaceAPI(config) ==
  /\ Constructor(config, 1)
  /\ api = [ t |-> "CarespaceAPI",
             client |-> Ref(1),
             auth |-> BaseAPI(Ref(1)),
             users |-> BaseAPI(Ref(1)),
             clients |-> BaseAPI(Ref(1)),
             programs |-> BaseAPI(Ref(1)) ]
  /\ via = [r \in DOMAIN reqs |-> null]

\* setApiKey(apiKey) { this.client.setApiKey(apiKey) }
CarespaceAPI_setApiKey(key) == setApiKey(key)

\* getClient()
getClient == api.client

----------------------------------------------------------------------------
(* Inputs of the facades *)

\* Path templates: without placeholder, with one, with two, with one twice, and
\* with one that no mapping below names.
PathTemplates ==
  { Str(<<"/users">>),
    Str(<<"/users/", "{", "id", "}">>),
    Str(<<"/clients/", "{", "clientId", "}", "/programs/", "{", "programId", "}">>),
    Str(<<"/users/", "{", "id", "}", "/peers/", "{", "id", "}">>),
    Str(<<"/users/", "{", "id", "}", "/files/", "{", "fileId", "}">>) }

\* Path parameters: left out, empty, numbers and texts that need encoding, keys
\* in either order, a value that reads as a placeholder, a key of no template.
ParamMappings ==
  { undefined,
    Obj(<<>>),
    Obj(<<Entry(<<"id">>, Num(7))>>),
    Obj(<<Entry(<<"id">>, Str(<<"a", " ", "b", "/", "c">>))>>),
    Obj(<<Entry(<<"clientId">>, Str(<<"c1">>)), Entry(<<"programId">>, Num(3))>>),
    Obj(<<Entry(<<"programId">>, Num(3)), Entry(<<"clientId">>, Str(<<"c1">>))>>),
    Obj(<<Entry(<<"clientId">>, Str(<<"{", "programId", "}">>)),
          Entry(<<"programId">>, Str(<<"p1">>))>>),
    Obj(<<Entry(<<"other">>, Str(<<"zz">>))>>) }

\* Query parameters: left out, empty, the cases the filter drops, values it
\* keeps (0, false, texts that need encoding), arrays, and keys in either order.
QueryMappings ==
  { undefined,
    Obj(<<>>),
    Obj(<<Entry(<<"page">>, Num(1)), Entry(<<"limit">>, Num(10))>>),
    Obj(<<Entry(<<"limit">>, Num(10)), Entry(<<"page">>, Num(1))>>),
    Obj(<<Entry(<<"q">>, Str(<<>>))>>),
    Obj(<<Entry(<<"q">>, null), Entry(<<"sort">>, undefined)>>),
    Obj(<<Entry(<<"q">>, undefined), Entry(<<"page">>, Num(0)),
          Entry(<<"active">>, Bool(FALSE))>>),
    Obj(<<Entry(<<"q">>, Str(<<"a", " ", "b", "&", "c", "=", "d">>))>>),
    Obj(<<Entry(<<"tags">>, Arr(<<>>))>>),
    Obj(<<Entry(<<"tags">>, Arr(<<Str(<<"x">>), Str(<<"y">>)>>)),
          Entry(<<"page">>, Num(2))>>),
    Obj(<<Entry(<<"page">>, Num(2)),
          Entry(<<"tags">>, Arr(<<Str(<<"y">>), Str(<<"x">>)>>))>>),
    Obj(<<Entry(<<"ids">>, Arr(<<Num(0), Str(<<>>), null, undefined>>))>>) }

FacadePayloads == {undefined, Body(Str(<<"hello">>), undefined, undefined)}

Credentials ==
  { Obj(<<Entry(<<"email">>, Str(<<"a@b.c">>)), Entry(<<"password">>, Str(<<"pw">>))>>) }
Tokens == {Str(<<"t1">>), Str(<<"t2">>)}
Emails == {Str(<<"a@b.c">>)}
Passwords == {Str(<<"pw">>), Str(<<"pw2">>)}

----------------------------------------------------------------------------
(* Specification: one call through a facade, every verb of BaseAPI *)

InitApi == \E config \in Configs : CarespaceAPI(config)

NextBase ==
  \/ \E path \in PathTemplates, params \in ParamMappings, queryParams \in QueryMappings :
       Through(1, "auth", "get", <<path, params, queryParams>>,
               BaseAPI_get(1, path, params, queryParams))
  \/ \E path \in PathTemplates, data \in FacadePayloads, params \in ParamMappings :
       Through(1, "auth", "post", <<path, data, params>>,
               BaseAPI_post(1, path, data, params))
  \/ \E path \in PathTemplates, data \in FacadePayloads, params \in ParamMappings :
       Through(1, "auth", "put", <<path, data, params>>,
               BaseAPI_put(1, path, data, params))
  \/ \E path \in PathTemplates, data \in FacadePayloads, params \in ParamMappings :
       Through(1, "auth", "patch", <<path, data, params>>,
               BaseAPI_patch(1, path, data, params))
  \/ \E path \in PathTemplates, params \in ParamMappings :
       Through(1, "auth", "delete", <<path, params>>,
               BaseAPI_delete(1, path, params))
  \/ RequestInterceptor(1)
  \/ Dispatch(1)
  \/ Responds(1, 200, Str(<<"OK">>), ServerData(reqs[1].url))
  \/ Responds(1, 404, Str(<<"Not Found">>), ServerRefusal(reqs[1].url))
  \/ Settle(1)

SpecBase == InitApi /\ [][NextBase]_vars

----------------------------------------------------------------------------
(* Specification: the CarespaceAPI object, its facades and key rotation *)

NextApi ==
  \/ \E key \in Keys : CarespaceAPI_setApiKey(key)
  \/ \E credentials \in Credentials :
       Through(1, "auth", "login", <<credentials>>, login(1, credentials))
  \/ Through(1, "auth", "logout", <<>>, logout(1))
  \/ \E token \in Tokens :
       Through(1, "auth", "refreshToken", <<token>>, refreshToken(1, token))
  \/ \E email \in Emails :
       Through(1, "auth", "forgotPassword", <<email>>, forgotPassword(1, email))
  \/ \E token \in Tokens, password \in Passwords :
       Through(1, "auth", "resetPassword", <<token, password>>,
               resetPassword(1, token, password))
  \/ \E currentPassword \in Passwords, newPassword \in Passwords :
       Through(1, "auth", "changePassword", <<currentPassword, newPassword>>,
               changePassword(1, currentPassword, newPassword))
  \/ \E token \in Tokens :
       Through(1, "auth", "verifyEmail", <<token>>, verifyEmail(1, token))
  \/ \E email \in Emails :
       Through(1, "auth", "resendVerification", <<email>>, resendVerification(1, email))
  \/ \E f \in Facades, path \in Urls :
       Through(1, f, "get", <<path, undefined, undefined>>,
               BaseAPI_get(1, path, undefined, undefined))
  \/ RequestInterceptor(1)
  \/ Dispatch(1)
  \/ Responds(1, 200, Str(<<"OK">>), ServerData(reqs[1].url))
  \/ Responds(1, 404, Str(<<"Not Found">>), ServerRefusal(reqs[1].url))
  \/ Settle(1)

SpecApi == InitApi /\ [][NextApi]_vars

----------------------------------------------------------------------------
(* Specification: one client under every kind of configuration *)

\* Config objects: empty; the one of the tests; a timeout of 0; an empty base
\* URL; a key with an extra header; an extra header that names Content-Type.
ClientConfigs ==
  { Config(undefined),
    [baseURL |-> Str(<<"https://api.test.com">>), apiKey |-> Key1,
     timeout |-> Num(5000), headers |-> undefined],
    [Config(undefined) EXCEPT !.timeout = Num(0)],
    [Config(undefined) EXCEPT !.baseURL = Str(<<>>)],
    [Config(Key1) EXCEPT !.headers = CustomOptions.headers],
    [Config(undefined) EXCEPT
       !.headers = [NoHeaders EXCEPT !["Content-Type"] = Str(<<"text/plain">>)]] }

\* Options of a call: left out, with a header of its own, with a Content-Type.
ContentTypeOptions ==
  [ t |-> "object",
    headers |-> [NoHeaders EXCEPT !["Content-Type"] = Str(<<"multipart/form-data">>)] ]
ConfigOptionsInputs == {undefined, CustomOptions, ContentTypeOptions}

InitConfig == \E config \in ClientConfigs : Constructor(config, 1) /\ Standalone

NextConfig ==
  \/ \E key \in Keys : setApiKey(key)
  \/ \E url \in Urls, options \in ConfigOptionsInputs : Direct(get(1, url, options))
  \/ \E data \in Payloads, options \in ConfigOptionsInputs :
       Direct(post(1, Str(<<"/users">>), data, options))
  \/ RequestInterceptor(1)
  \/ Dispatch(1)
  \/ SetupFails(1, Str(<<"Invalid URL">>))
  \/ Responds(1, 200, Str(<<"OK">>), ServerData(reqs[1].url))
  \/ Responds(1, 401, Str(<<"Unauthorized">>), ServerRefusal(reqs[1].url))
  \/ NoResponse(1, Str(<<"ECONNABORTED">>))
  \/ Settle(1)

SpecConfig == InitConfig /\ [][NextConfig]_vars

----------------------------------------------------------------------------
(* Specification: one call that is carried through.  The interceptors and   *)
(* the continuation of the verb are promise reactions, which the event loop *)
(* runs once their promise is settled; the transport answers, fails or, its *)
(* timeout being set at construction and never 0, aborts the request.       *)

Delivery ==
  \/ \E status \in Statuses, statusText \in StatusTexts, data \in Bodies :
       Responds(1, status, statusText, data)
  \/ \E code \in Codes : NoResponse(1, code)

SpecLive ==
  /\ InitErrors
  /\ [][NextErrors]_vars
  /\ WF_vars(RequestInterceptor(1))
  /\ WF_vars(Dispatch(1) \/ \E message \in SetupMessages : SetupFails(1, message))
  /\ WF_vars(Delivery)
  /\ WF_vars(Settle(1))

----------------------------------------------------------------------------
(* Properties *)

\* Call q has settled after the transport delivered a failure.
Failed(q) == q.pc = "settled" /\ q.delivery.t = "error"

\* ... a response with a non-2xx status.
HttpFailed(q) == Failed(q) /\ q.delivery.response # undefined

\* ... no response, though the request was made.
Unanswered(q) ==
  Failed(q) /\ q.delivery.response = undefined /\ q.delivery.request # undefined

\* ... a failure while setting the request up: neither response nor request.
SetupFailed(q) ==
  Failed(q) /\ q.delivery.response = undefined /\ q.delivery.request = undefined

\* The documented status table.
StatusTable(status) ==
  CASE status = 401 -> "AuthenticationError"
    [] status = 403 -> "AuthorizationError"
    [] status = 404 -> "NotFoundError"
    [] status = 400 -> "ValidationError"
    [] status = 422 -> "ValidationError"
    [] status = 429 -> "RateLimitError"
    [] status = 500 -> "ServerError"
    [] status = 502 -> "ServerError"
    [] status = 503 -> "ServerError"
    [] status = 504 -> "ServerError"
    [] OTHER -> "CarespaceError"

C2_Every5xxIsServerError ==
  \A r \in DOMAIN reqs :
    (HttpFailed(reqs[r]) /\ reqs[r].delivery.response.status >= 500) =>
      InstanceOf(reqs[r].outcome.error, "ServerError")

\* C3: a 400 or 422 response whose body carries a list `errors` surfaces as a
\* ValidationError whose `errors` is the list the server sent.
C3_ValidationDetails ==
  \A r \in DOMAIN reqs :
    ( /\ HttpFailed(reqs[r])
      /\ reqs[r].delivery.response.status \in {400, 422}
      /\ reqs[r].delivery.response.data.t = "body"
      /\ reqs[r].delivery.response.data.errors # undefined ) =>
      /\ reqs[r].outcome.error.class = "ValidationError"
      /\ reqs[r].outcome.error.errors = reqs[r].delivery.response.data.errors

\* A string that is present and not empty.
NonEmpty(x) == x.t = "string" /\ Len(x.v) > 0

\* The generic message of a response.
GenericMessage(response) ==
  Str(<<"HTTP ", ToString(response.status), ": ">> \o response.statusText.v)

\* C4 as stated: the message is body.message if the body has one, otherwise
\* body.error if the body has one, otherwise the generic text.
C4_MessageIfPresent ==
  \A r \in DOMAIN reqs :
    HttpFailed(reqs[r]) =>
      LET response == reqs[r].delivery.response
          m == OptMessage(response.data)
          e == OptError(response.data)
      IN  reqs[r].outcome.error.message =
            IF m # undefined THEN m
            ELSE IF e # undefined THEN e
            ELSE GenericMessage(response)

\* C4 as amended: the message is body.message if it is a non-empty string,
\* otherwise body.error if it is a non-empty string, otherwise the generic
\* text; a 404 with body {message: 'not found'} is a NotFoundError with
\* message 'not found'.
C4_MessageIfNonEmpty ==
  \A r \in DOMAIN reqs :
    HttpFailed(reqs[r]) =>
      LET response == reqs[r].delivery.response
          m == OptMessage(response.data)
          e == OptError(response.data)
      IN  /\ reqs[r].outcome.error.message =
               IF NonEmpty(m) THEN m
               ELSE IF NonEmpty(e) THEN e
               ELSE GenericMessage(response)
          /\ (response.status = 404 /\ m = Str(<<"not found">>)) =>
               /\ reqs[r].outcome.error.class = "NotFoundError"
               /\ reqs[r].outcome.error.message = Str(<<"not found">>)

C4_Witness ==
  \E r \in DOMAIN reqs :
    /\ HttpFailed(reqs[r])
    /\ reqs[r].delivery.response.data = Body(Str(<<>>), Str(<<"bad request">>), undefined)
    /\ reqs[r].outcome.error.message = Str(<<"bad request">>)

\* C5 as stated: the error's statusCode is the response's status and the
\* response attached to the error is the response body.
C5_StatusAndBody ==
  \A r \in DOMAIN reqs :
    HttpFailed(reqs[r]) =>
      /\ reqs[r].outcome.error.statusCode = Num(reqs[r].delivery.response.status)
      /\ reqs[r].outcome.error.response = reqs[r].delivery.response.data

\* C5 as amended: the error's statusCode is the response's status, never the
\* class default, and the response attached to the error is the transport's
\* response object, whose data field is the body the server sent.
C5_StatusAndResponse ==
  \A r \in DOMAIN reqs :
    HttpFailed(reqs[r]) =>
      /\ reqs[r].outcome.error.statusCode = Num(reqs[r].delivery.response.status)
      /\ reqs[r].outcome.error.response = reqs[r].delivery.response
      /\ reqs[r].outcome.error.response.data = reqs[r].delivery.response.data

C5_Witness ==
  \E r \in DOMAIN reqs :
    /\ HttpFailed(reqs[r])
    /\ reqs[r].delivery.response.status = 422
    /\ reqs[r].outcome.error.statusCode = Num(422)
    /\ reqs[r].outcome.error.response.data = Body(undefined, undefined, Arr(<<"email invalid">>))

\* The failure code by which the transport reports that the configured
\* timeout elapsed.
TimedOut(error) == error.code = Str(<<"ECONNABORTED">>)

\* C6: when no response is received, a timeout surfaces as a TimeoutError and
\* every other failure as a NetworkError that is not a TimeoutError.
C6_NoResponseByReason ==
  \A r \in DOMAIN reqs :
    Unanswered(reqs[r]) =>
      /\ reqs[r].outcome.state = "rejected"
      /\ InstanceOf(reqs[r].outcome.error, "NetworkError")
      /\ InstanceOf(reqs[r].outcome.error, "TimeoutError") <=> TimedOut(reqs[r].delivery)
      /\ reqs[r].outcome.error.class \in {"TimeoutError", "NetworkError"}

C6_Witness ==
  \E r \in DOMAIN reqs :
    /\ Unanswered(reqs[r])
    /\ TimedOut(reqs[r].delivery)
    /\ reqs[r].outcome.error.class = "TimeoutError"

\* C7: a failure while setting the request up surfaces as a NetworkError (not a
\* TimeoutError) whose message is 'Request setup error: ' followed by the
\* failure's message, and no request was sent.
C7_SetupFailure ==
  \A r \in DOMAIN reqs :
    SetupFailed(reqs[r]) =>
      /\ reqs[r].outcome.state = "rejected"
      /\ reqs[r].outcome.error.class = "NetworkError"
      /\ reqs[r].outcome.error.message =
           Str(<<"Request setup error: ">> \o reqs[r].delivery.message.v)
      /\ reqs[r].sends = 0

C7_Witness ==
  \E r \in DOMAIN reqs :
    /\ SetupFailed(reqs[r])
    /\ reqs[r].outcome.error.message = Str(<<"Request setup error: ", "Invalid URL">>)

\* C8: a call settles once; every failure the transport delivers rejects the
\* call with an error that is a CarespaceError, and only a delivered response
\* fulfils it.
C8_FailuresAreTyped ==
  \A r \in DOMAIN reqs :
    /\ reqs[r].pc # "settled" => reqs[r].outcome.state = "pending"
    /\ reqs[r].pc = "settled" =>
         /\ reqs[r].delivery.t = "error" =>
              /\ reqs[r].outcome.state = "rejected"
              /\ InstanceOf(reqs[r].outcome.error, "CarespaceError")
         /\ reqs[r].delivery.t # "error" =>
              /\ reqs[r].delivery.t = "response"
              /\ reqs[r].outcome.state = "fulfilled"

C8_Witness ==
  \E r \in DOMAIN reqs :
    /\ SetupFailed(reqs[r])
    /\ reqs[r].outcome.state = "rejected"
    /\ InstanceOf(reqs[r].outcome.error, "CarespaceError")

\* The Authorization header for key k.
Bearer(k) == Str(<<"Bearer ">> \o k.v)

\* The request interceptor runs on call r in this step.
Intercepts(r) == reqs[r].pc = "called" /\ reqs'[r].pc = "intercepted"

\* C9: when the request interceptor runs on a request, the request gets the
\* header Authorization: Bearer k if the client's key is at that moment a
\* non-empty k, and no Authorization header otherwise; the request is sent
\* with the headers the interceptor left; while no key has been set, no
\* request has an Authorization header.
C9_AuthorizationHeader ==
  /\ [][\A r \in DOMAIN reqs :
          /\ Intercepts(r) =>
               reqs'[r].headers["Authorization"] =
                 IF NonEmpty(apiKey) THEN Bearer(apiKey) ELSE undefined
          /\ (reqs[r].pc = "intercepted" /\ reqs'[r].pc = "sent") =>
               reqs'[r].headers = reqs[r].headers]_vars
  /\ []((\A k \in keyHistory : ~NonEmpty(k)) =>
          \A r \in DOMAIN reqs : reqs[r].headers["Authorization"] = undefined)

C9_Witness ==
  \E r \in DOMAIN reqs :
    /\ keyHistory = {Key1, Key2}
    /\ apiKey = Key2
    /\ reqs[r].pc = "sent"
    /\ reqs[r].headers["Authorization"] = Str(<<"Bearer ", "xyz">>)

\* C10: a request whose header was built keeps it whatever setApiKey does
\* afterwards; a request whose interceptor runs after a setApiKey gets the key
\* set last; no request carries a key that was never the client's key.
C10_KeyRotation ==
  /\ [][\A r \in DOMAIN reqs :
          /\ reqs[r].pc \notin {"idle", "called"} =>
               reqs'[r].headers = reqs[r].headers
          /\ reqs[r].pc \in {"idle", "called"} /\ apiKey' # apiKey =>
               reqs'[r] = reqs[r]
          /\ Intercepts(r) /\ NonEmpty(apiKey) =>
               reqs'[r].headers["Authorization"] = Bearer(apiKey)]_vars
  /\ [](\A r \in DOMAIN reqs :
          reqs[r].headers["Authorization"] # undefined =>
            \E k \in keyHistory :
              NonEmpty(k) /\ reqs[r].headers["Authorization"] = Bearer(k))

C10_Witness ==
  \E r, q \in DOMAIN reqs :
    /\ apiKey = Key2
    /\ reqs[r].pc = "sent"
    /\ reqs[r].headers["Authorization"] = Bearer(Key1)
    /\ reqs[q].pc = "intercepted"
    /\ reqs[q].headers["Authorization"] = Bearer(Key2)

\* C11: calls in flight together on one client each settle with the answer to
\* their own request: a fulfilled call returns the data of the endpoint it
\* named, a rejected call carries the refusal of the endpoint it named, and two
\* settled calls to different endpoints never hold the same result.
C11_OwnResult ==
  /\ \A r \in DOMAIN reqs :
       reqs[r].pc = "settled" =>
         /\ reqs[r].outcome.state \in {"fulfilled", "rejected"}
         /\ reqs[r].outcome.state = "fulfilled" =>
              reqs[r].outcome.value = ServerData(reqs[r].call.url)
         /\ reqs[r].outcome.state = "rejected" =>
              /\ reqs[r].outcome.error.response.data = ServerRefusal(reqs[r].call.url)
              /\ reqs[r].outcome.error.message = Str(<<"no ">> \o reqs[r].call.url.v)
  /\ \A r, q \in DOMAIN reqs :
       /\ reqs[r].pc = "settled"
       /\ reqs[q].pc = "settled"
       /\ reqs[r].call.url # reqs[q].call.url
       => reqs[r].outcome # reqs[q].outcome

\* The second call has settled while the first is still with the transport,
\* and then the first settles too, each with its own endpoint's answer.
C11_Witness ==
  /\ reqs[1].pc = "settled"
  /\ reqs[2].pc = "settled"
  /\ reqs[1].call.url = Str(<<"/users">>)
  /\ reqs[2].call.url = Str(<<"/programs">>)
  /\ reqs[1].outcome.state = "rejected"
  /\ reqs[1].outcome.error.message = Str(<<"no ", "/users">>)
  /\ reqs[2].outcome = [state |-> "fulfilled", value |-> Arr(<<"/programs">>)]

\* C12: a call hands the transport one request with the caller's verb, url,
\* body and options ({} when the caller gave none); the request is sent at most
\* once, exactly once when the call got an answer or lost it, and a failed call
\* is never sent again.
C12_OneRequestPerCall ==
  /\ [](\A r \in DOMAIN reqs :
          reqs[r].pc # "idle" =>
            /\ reqs[r].method = Str(<<reqs[r].call.verb>>)
            /\ reqs[r].url = reqs[r].call.url
            /\ reqs[r].data = reqs[r].call.data
            /\ reqs[r].call.verb \in {"get", "delete"} => reqs[r].data = undefined
            /\ reqs[r].options =
                 IF reqs[r].call.options = undefined
                 THEN EmptyObject ELSE reqs[r].call.options
            /\ reqs[r].sends \in {0, 1}
            /\ reqs[r].pc = "sent" => reqs[r].sends = 1
            /\ reqs[r].pc = "settled" =>
                 reqs[r].sends = IF SetupFailed(reqs[r]) THEN 0 ELSE 1)
  /\ [][\A r \in DOMAIN reqs :
          Failed(reqs[r]) => reqs'[r] = reqs[r]]_vars

C12_Witness ==
  \E r \in DOMAIN reqs :
    /\ reqs[r].call = Invocation("patch", Str(<<"/users">>),
                                  Body(Str(<<"hello">>), undefined, undefined),
                                  undefined)
    /\ reqs[r].method = Str(<<"patch">>)
    /\ reqs[r].options = EmptyObject
    /\ Unanswered(reqs[r])
    /\ TimedOut(reqs[r].delivery)
    /\ reqs[r].sends = 1

\* C13: a call answered with a 2xx status returns the response's data, and
\* nothing else of the response.
C13_ReturnsData ==
  \A r \in DOMAIN reqs :
    reqs[r].pc = "settled" /\ reqs[r].delivery.t = "response" =>
      /\ reqs[r].delivery.status \in 200..299
      /\ reqs[r].outcome = [state |-> "fulfilled", value |-> reqs[r].delivery.data]

C13_Witness ==
  \E r \in DOMAIN reqs :
    /\ reqs[r].pc = "settled"
    /\ reqs[r].call.verb = "put"
    /\ reqs[r].delivery.t = "response"
    /\ reqs[r].delivery.status = 200
    /\ reqs[r].delivery.data = Body(undefined, undefined, Arr(<<"email invalid">>))
    /\ reqs[r].outcome.value = Body(undefined, undefined, Arr(<<"email invalid">>))

\* A call made by one of the verbs of BaseAPI, and the arguments it was given.
BaseCall(r) ==
  via[r] # null /\ via[r].method \in {"get", "post", "put", "patch", "delete"}
PathArg(r) == via[r].args[1]
ParamsArg(r) == IF via[r].method \in {"get", "delete"} THEN via[r].args[2] ELSE via[r].args[3]
QueryArg(r) == via[r].args[3]

\* The entries of a mapping argument; none when the argument was left out.
Given(mapping) == IF mapping = undefined THEN <<>> ELSE mapping.entries

\* The url the client was called with, cut at its '?'.
BuiltPath(r) ==
  LET i == IndexOf(reqs[r].url.v, <<"?">>)
  IN IF i = 0 THEN reqs[r].url.v ELSE SubSeq(reqs[r].url.v, 1, i - 1)
BuiltQuery(r) ==
  LET i == IndexOf(reqs[r].url.v, <<"?">>)
  IN IF i = 0 THEN <<>> ELSE SubSeq(reqs[r].url.v, i, Len(reqs[r].url.v))

\* How often pattern occurs in s.
Occurrences(s, pattern) ==
  Cardinality({ i \in 1..(Len(s) - Len(pattern) + 1) :
                  SubSeq(s, i, i + Len(pattern) - 1) = pattern })

\* text is the percent-encoded form of value: no reserved character is left in
\* it, and decoding it gives the string form of value.
Reserved == {" ", "/", "?", "&", "=", "+", ",", "@", "{", "}"}
PercentDecoded(c) ==
  CASE c = "%20" -> " "
    [] c = "%2F" -> "/"
    [] c = "%3F" -> "?"
    [] c = "%26" -> "&"
    [] c = "%3D" -> "="
    [] c = "%2B" -> "+"
    [] c = "%2C" -> ","
    [] c = "%40" -> "@"
    [] c = "%7B" -> "{"
    [] c = "%7D" -> "}"
    [] OTHER -> c
IsPercentEncodingOf(text, value) ==
  /\ Len(text) = Len(StringOf(value))
  /\ \A i \in 1..Len(text) :
       text[i] \notin Reserved /\ PercentDecoded(text[i]) = StringOf(value)[i]

\* The template read from left to right, each placeholder whose key is in the
\* entries written as the encoded value: every occurrence of it, or (every =
\* FALSE) only the first one, the later ones copied as they are.
RECURSIVE Substituted(_, _, _, _)
Substituted(template, entries, used, every) ==
  IF template = <<>> THEN <<>>
  ELSE LET hits == { i \in 1..Len(entries) :
                       /\ every \/ i \notin used
                       /\ Len(template) >= Len(Placeholder(entries[i].key))
                       /\ SubSeq(template, 1, Len(Placeholder(entries[i].key)))
                            = Placeholder(entries[i].key) }
       IN IF hits = {}
          THEN <<Head(template)>> \o Substituted(Tail(template), entries, used, every)
          ELSE LET i == CHOOSE i \in hits : TRUE
               IN encodeURIComponent(entries[i].value)
                  \o Substituted(SubSeq(template, Len(Placeholder(entries[i].key)) + 1,
                                        Len(template)),
                                 entries, used \cup {i}, every)

\* C14 as stated: buildUrl writes the percent-encoded value in place of every
\* occurrence of a placeholder whose key is in the mapping, also when the
\* placeholder occurs more than once in the template.
C14_EveryOccurrence ==
  \A r \in DOMAIN reqs :
    BaseCall(r) =>
      BuiltPath(r) = Substituted(PathArg(r).v, Given(ParamsArg(r)), {}, TRUE)

\* C14, amended: buildUrl writes the percent-encoded string form of the value
\* in place of the first occurrence of each placeholder whose key is in the
\* mapping; a later occurrence of the same placeholder stays as it is.
C14_FirstOccurrence ==
  \A r \in DOMAIN reqs :
    BaseCall(r) =>
      /\ BuiltPath(r) = Substituted(PathArg(r).v, Given(ParamsArg(r)), {}, FALSE)
      /\ \A i \in 1..Len(Given(ParamsArg(r))) :
           LET e == Given(ParamsArg(r))[i]
           IN /\ IsPercentEncodingOf(encodeURIComponent(e.value), e.value)
              /\ Occurrences(PathArg(r).v, Placeholder(e.key)) > 0 =>
                   /\ Occurrences(BuiltPath(r), Placeholder(e.key))
                        = Occurrences(PathArg(r).v, Placeholder(e.key)) - 1
                   /\ IndexOf(BuiltPath(r), encodeURIComponent(e.value)) # 0

\* A template that names {id} twice, called with a value that needs encoding:
\* the first {id} is replaced, the second is still there.
C14_Witness ==
  \E r \in DOMAIN reqs :
    /\ BaseCall(r)
    /\ PathArg(r) = Str(<<"/users/", "{", "id", "}", "/peers/", "{", "id", "}">>)
    /\ ParamsArg(r) = Obj(<<Entry(<<"id">>, Str(<<"a", " ", "b", "/", "c">>))>>)
    /\ reqs[r].url =
         Str(<<"/users/", "a", "%20", "b", "%2F", "c", "/peers/", "{", "id", "}">>)

\* The names a template may hold between braces.
PlaceholderNames == {<<"id">>, <<"clientId">>, <<"programId">>, <<"fileId">>, <<"other">>}
KeysOf(mapping) == { Given(mapping)[i].key : i \in 1..Len(Given(mapping)) }
MatchingEntries(template, mapping) ==
  SelectSeq(Given(mapping), LAMBDA e : Occurrences(template, Placeholder(e.key)) > 0)

\* C15: a placeholder whose key is not in the mapping is in the output as often
\* as in the template; the call is made all the same; keys that name no
\* placeholder change nothing, so the output is that of the mapping without
\* them, and the template itself when no key names a placeholder.
C15_UnmatchedLeft ==
  \A r \in DOMAIN reqs :
    BaseCall(r) =>
      /\ reqs[r].pc # "idle"
      /\ \A name \in PlaceholderNames \ KeysOf(ParamsArg(r)) :
           Occurrences(BuiltPath(r), Placeholder(name))
             = Occurrences(PathArg(r).v, Placeholder(name))
      /\ BuiltPath(r) = Substituted(PathArg(r).v,
                                    MatchingEntries(PathArg(r).v, ParamsArg(r)),
                                    {}, FALSE)
      /\ MatchingEntries(PathArg(r).v, ParamsArg(r)) = <<>> => BuiltPath(r) = PathArg(r).v

C15_Witness ==
  \E r \in DOMAIN reqs :
    /\ BaseCall(r)
    /\ reqs[r].pc = "settled"
    /\ PathArg(r) = Str(<<"/users/", "{", "id", "}", "/files/", "{", "fileId", "}">>)
    /\ ParamsArg(r) = Obj(<<Entry(<<"id">>, Num(7))>>)
    /\ reqs[r].url = Str(<<"/users/", "7", "/files/", "{", "fileId", "}">>)

\* A call made by BaseAPI.get: the only verb that takes query parameters.
QueryCall(r) == via[r] # null /\ via[r].method = "get" /\ Len(via[r].args) = 3

\* s cut at every separator.
RECURSIVE Split(_, _)
Split(s, separator) ==
  LET i == IndexOf(s, <<separator>>)
  IN IF i = 0 THEN <<s>>
     ELSE <<SubSeq(s, 1, i - 1)>> \o Split(SubSeq(s, i + 1, Len(s)), separator)

\* The [name, value] pairs read back from a query string: the text after its
\* first character cut at every '&', each part cut at its first '='.
PairRead(part) ==
  LET i == IndexOf(part, <<"=">>)
  IN IF i = 0 THEN <<part>>
     ELSE <<SubSeq(part, 1, i - 1), SubSeq(part, i + 1, Len(part))>>
PairsRead(query) ==
  IF query = <<>> THEN <<>>
  ELSE LET parts == Split(Tail(query), "&")
       IN [i \in 1..Len(parts) |-> PairRead(parts[i])]

\* The values buildQueryParams is to drop, and the elements of a value.
Dropped(value) == value \in {undefined, null, Str(<<>>)}
Elements(value) == IF value.t = "array" THEN value.v ELSE <<value>>

\* The pairs of the output that carry the name of this key.
PairsNamed(query, key) ==
  SelectSeq(PairsRead(query), LAMBDA pair : pair[1] = FormEncoded(key))

\* C16: an entry whose value is undefined, null or '' puts no pair under its
\* name in the output; every other entry, 0 and false among them, puts its
\* pairs there: one with its string form, or one per element of an array.
C16_DropsOnlyEmpty ==
  \A r \in DOMAIN reqs :
    QueryCall(r) =>
      \A i \in 1..Len(Given(QueryArg(r))) :
        LET e == Given(QueryArg(r))[i]
            pairs == PairsNamed(BuiltQuery(r), e.key)
        IN IF Dropped(e.value)
           THEN pairs = <<>>
           ELSE pairs = [j \in 1..Len(Elements(e.value)) |->
                           <<FormEncoded(e.key), FormEncoded(StringOf(Elements(e.value)[j]))>>]

\* One mapping with a dropped value next to 0 and false.
C16_Witness ==
  \E r \in DOMAIN reqs :
    /\ QueryCall(r)
    /\ reqs[r].pc = "sent"
    /\ PathArg(r) = Str(<<"/users">>)
    /\ QueryArg(r) = Obj(<<Entry(<<"q">>, undefined), Entry(<<"page">>, Num(0)),
                           Entry(<<"active">>, Bool(FALSE))>>)
    /\ reqs[r].url = Str(<<"/users", "?", "page", "=", "0", "&", "active", "=", "false">>)

\* The number of pairs a mapping adds.
RECURSIVE PairCount(_)
PairCount(entries) ==
  IF entries = <<>> THEN 0
  ELSE (IF Dropped(Head(entries).value) THEN 0 ELSE Len(Elements(Head(entries).value)))
       + PairCount(Tail(entries))

\* C17: the output is '' when the mapping adds no pair (it is empty, all its
\* values are dropped, or its arrays are empty); otherwise it is '?' and the
\* pairs, each name=value, with '&' between them and nowhere else.  {} gives
\* '' and {page: 1, limit: 10} gives '?page=1&limit=10'.
C17_QueryShape ==
  \A r \in DOMAIN reqs :
    QueryCall(r) =>
      LET query == BuiltQuery(r)
          n == PairCount(Given(QueryArg(r)))
      IN /\ n = 0 => query = <<>> /\ reqs[r].url.v = BuiltPath(r)
         /\ n > 0 =>
              /\ Head(query) = "?"
              /\ Len(PairsRead(query)) = n
              /\ \A i \in 1..n : Len(PairsRead(query)[i]) = 2
              /\ Occurrences(query, <<"&">>) = n - 1
              /\ Occurrences(query, <<"?">>) = 1
         /\ QueryArg(r) = Obj(<<>>) => query = <<>>
         /\ QueryArg(r) = Obj(<<Entry(<<"page">>, Num(1)), Entry(<<"limit">>, Num(10))>>) =>
              query = <<"?", "page", "=", "1", "&", "limit", "=", "10">>

C17_Witness ==
  \E r \in DOMAIN reqs :
    /\ QueryCall(r)
    /\ reqs[r].pc = "settled"
    /\ PathArg(r) = Str(<<"/users">>)
    /\ QueryArg(r) = Obj(<<Entry(<<"page">>, Num(1)), Entry(<<"limit">>, Num(10))>>)
    /\ reqs[r].url = Str(<<"/users", "?", "page", "=", "1", "&", "limit", "=", "10">>)

\* The pairs a mapping is to give, in the order of its keys and, under one
\* key, in the order of the elements.
RECURSIVE PairsInOrder(_)
PairsInOrder(entries) ==
  IF entries = <<>> THEN <<>>
  ELSE (IF Dropped(Head(entries).value) THEN <<>>
        ELSE [j \in 1..Len(Elements(Head(entries).value)) |->
                <<FormEncoded(Head(entries).key),
                  FormEncoded(StringOf(Elements(Head(entries).value)[j]))>>])
       \o PairsInOrder(Tail(entries))

\* C18: the pairs of the output are those of the mapping in the order of its
\* keys, an array giving one pair per element in the order of its elements; the
\* output is a function of the mapping alone.
C18_KeyOrder ==
  \A r \in DOMAIN reqs :
    QueryCall(r) =>
      /\ PairsRead(BuiltQuery(r)) = PairsInOrder(Given(QueryArg(r)))
      /\ BuiltQuery(r) = buildQueryParams(QueryArg(r)).v

C18_Witness ==
  \E r \in DOMAIN reqs :
    /\ QueryCall(r)
    /\ reqs[r].pc = "called"
    /\ PathArg(r) = Str(<<"/users">>)
    /\ QueryArg(r) = Obj(<<Entry(<<"page">>, Num(2)),
                           Entry(<<"tags">>, Arr(<<Str(<<"y">>), Str(<<"x">>)>>))>>)
    /\ reqs[r].url =
         Str(<<"/users", "?", "page", "=", "2", "&", "tags", "=", "y", "&", "tags", "=", "x">>)

\* The methods of AuthAPI, the path each posts to and the body each is
\* documented to send for its arguments.
AuthMethods ==
  {"login", "logout", "refreshToken", "forgotPassword", "resetPassword",
   "changePassword", "verifyEmail", "resendVerification"}
AuthCall(r) == via[r] # null /\ via[r].method \in AuthMethods
AuthPath(method) ==
  CASE method = "login" -> "/auth/login"
    [] method = "logout" -> "/auth/logout"
    [] method = "refreshToken" -> "/auth/refresh"
    [] method = "forgotPassword" -> "/auth/forgot-password"
    [] method = "resetPassword" -> "/auth/reset-password"
    [] method = "changePassword" -> "/auth/change-password"
    [] method = "verifyEmail" -> "/auth/verify-email"
    [] method = "resendVerification" -> "/auth/resend-verification"
AuthBody(method, args) ==
  CASE method = "login" -> args[1]
    [] method = "logout" -> undefined
    [] method = "refreshToken" -> Obj(<<Entry(<<"refresh_token">>, args[1])>>)
    [] method = "forgotPassword" -> Obj(<<Entry(<<"email">>, args[1])>>)
    [] method = "resetPassword" ->
         Obj(<<Entry(<<"token">>, args[1]), Entry(<<"password">>, args[2])>>)
    [] method = "changePassword" ->
         Obj(<<Entry(<<"current_password">>, args[1]),
               Entry(<<"new_password">>, args[2])>>)
    [] method = "verifyEmail" -> Obj(<<Entry(<<"token">>, args[1])>>)
    [] method = "resendVerification" -> Obj(<<Entry(<<"email">>, args[1])>>)

\* C19: a call of an AuthAPI method is one post of the client to the path of
\* the method with the documented body and no options; it is sent at most
\* once; what the caller gets is what the client gives: the data of the
\* response, or the client's typed error with the response it was made from.
C19_AuthPosts ==
  \A r \in DOMAIN reqs :
    AuthCall(r) =>
      /\ via[r].facade = "auth"
      /\ reqs[r].call = Invocation("post", Str(<<AuthPath(via[r].method)>>),
                                   AuthBody(via[r].method, via[r].args), undefined)
      /\ reqs[r].method = Str(<<"post">>)
      /\ reqs[r].url = Str(<<AuthPath(via[r].method)>>)
      /\ reqs[r].data = AuthBody(via[r].method, via[r].args)
      /\ reqs[r].sends \in {0, 1}
      /\ reqs[r].pc \in {"sent", "delivered", "settled"} => reqs[r].sends = 1
      /\ reqs[r].pc = "settled" =>
           IF reqs[r].delivery.t = "response"
           THEN reqs[r].outcome = [state |-> "fulfilled", value |-> reqs[r].delivery.data]
           ELSE /\ reqs[r].outcome.state = "rejected"
                /\ reqs[r].outcome.error = responseRejected(reqs[r].delivery)
                /\ reqs[r].outcome.error.response = reqs[r].delivery.response

C19_Witness ==
  \E r \in DOMAIN reqs :
    /\ via[r] # null
    /\ via[r].method = "refreshToken"
    /\ via[r].args = <<Str(<<"t2">>)>>
    /\ reqs[r].pc = "settled"
    /\ reqs[r].url = Str(<<"/auth/refresh">>)
    /\ reqs[r].data = Obj(<<Entry(<<"refresh_token">>, Str(<<"t2">>))>>)
    /\ reqs[r].outcome.state = "rejected"
    /\ reqs[r].outcome.error.class = "NotFoundError"

\* C20: the CarespaceAPI object has one client; each of its four facades holds
\* that client, getClient returns it, and none of this ever changes; a call
\* made through any facade is made on that client, so its request carries the
\* key that the object's setApiKey set last.
C20_SharedClient ==
  /\ [](/\ api.t = "CarespaceAPI"
        /\ api.client = Ref(1)
        /\ \A f \in Facades : api[f].client = api.client
        /\ getClient = api.client
        /\ \A r \in DOMAIN reqs : via[r] # null => via[r].client = getClient)
  /\ [][/\ api' = api
        /\ \A r \in DOMAIN reqs :
             via[r] # null /\ Intercepts(r) =>
               reqs'[r].headers["Authorization"] =
                 IF NonEmpty(apiKey) THEN Bearer(apiKey) ELSE undefined]_vars

\* A key set on the object after construction is on a request made through
\* the programs facade.
C20_Witness ==
  \E r \in DOMAIN reqs :
    /\ via[r] # null
    /\ via[r].facade = "programs"
    /\ via[r].client = api.client
    /\ Key1 \in keyHistory
    /\ apiKey = Key2
    /\ reqs[r].pc = "sent"
    /\ reqs[r].headers["Authorization"] = Str(<<"Bearer ", "xyz">>)

\* C21 as stated: the transport is made with config.baseURL, or the
\* development endpoint when config has none; with config.timeout, or 30000
\* when config has none; and with Content-Type: application/json merged with
\* the extra headers, an extra header winning; without extra headers the
\* headers are exactly {Content-Type: application/json}.
C21_ConstructorBinding ==
  /\ transport.baseURL =
       IF settings.baseURL # undefined THEN settings.baseURL ELSE DefaultBaseURL
  /\ transport.timeout =
       IF settings.timeout # undefined THEN settings.timeout ELSE Num(30000)
  /\ \A h \in HeaderNames :
       transport.headers[h] =
         IF settings.headers # undefined /\ settings.headers[h] # undefined
         THEN settings.headers[h]
         ELSE IF h = "Content-Type" THEN Str(<<"application/json">>) ELSE undefined
  /\ settings.headers = undefined =>
       \A h \in HeaderNames :
         transport.headers[h] # undefined <=> h = "Content-Type"

\* The Content-Type a call names in its options, the client in its extra
\* headers.
OwnContentType(q) ==
  IF q.options.headers = undefined THEN undefined ELSE q.options.headers["Content-Type"]
ExtraContentType ==
  IF settings.headers = undefined THEN undefined ELSE settings.headers["Content-Type"]

\* C22 as stated: every request that is sent carries Content-Type:
\* application/json, whatever the configuration of its client.
C22_AlwaysJson ==
  \A r \in DOMAIN reqs :
    reqs[r].sends > 0 => reqs[r].headers["Content-Type"] = Str(<<"application/json">>)

\* C22, amended: every request that is sent carries a Content-Type: the one of
\* the call's options if they name one, else the one of the client's extra
\* headers if they name one, else application/json; so a client without a
\* Content-Type among its extra headers sends application/json with every call
\* whose options name none.
C22_JsonUnlessOverridden ==
  \A r \in DOMAIN reqs :
    reqs[r].sends > 0 =>
      /\ reqs[r].headers["Content-Type"] =
           IF OwnContentType(reqs[r]) # undefined THEN OwnContentType(reqs[r])
           ELSE IF ExtraContentType # undefined THEN ExtraContentType
           ELSE Str(<<"application/json">>)
      /\ OwnContentType(reqs[r]) = undefined /\ ExtraContentType = undefined =>
           reqs[r].headers["Content-Type"] = Str(<<"application/json">>)

\* A client with an extra header of another name sends both headers.
C22_Witness ==
  \E r \in DOMAIN reqs :
    /\ settings.headers = CustomOptions.headers
    /\ reqs[r].pc = "sent"
    /\ reqs[r].call.options = undefined
    /\ reqs[r].headers["Content-Type"] = Str(<<"application/json">>)
    /\ reqs[r].headers["X-Custom-Header"] = Str(<<"value">>)

\* C23: while the key is '', a request whose interceptor runs gets no
\* Authorization header, also on a client that had a key before; once a
\* non-empty key is set, the interceptor writes Bearer and that key again.
C23_EmptyKeyClears ==
  [][\A r \in DOMAIN reqs :
       Intercepts(r) =>
         /\ apiKey = Str(<<>>) => reqs'[r].headers["Authorization"] = undefined
         /\ NonEmpty(apiKey) => reqs'[r].headers["Authorization"] = Bearer(apiKey)]_vars

\* A client constructed with a key, whose key was then set to '', has sent a
\* request without the header.
C23_Witness ==
  \E r \in DOMAIN reqs :
    /\ settings.apiKey = Key1
    /\ keyHistory = {Key1, Str(<<>>)}
    /\ apiKey = Str(<<>>)
    /\ reqs[r].pc = "sent"
    /\ reqs[r].headers["Authorization"] = undefined

\* The classes made from an HTTP status, and all classes of the SDK.
StatusClasses ==
  {"AuthenticationError", "AuthorizationError", "NotFoundError", "ValidationError",
   "RateLimitError", "ServerError"}
SdkClasses == StatusClasses \cup {"NetworkError", "TimeoutError", "CarespaceError"}

\* The branch a caller takes who tests `error instanceof C` down a ladder of
\* classes: the first class that matches, "else" when none does.
RECURSIVE Branch(_, _)
Branch(e, ladder) ==
  IF ladder = <<>> THEN "else"
  ELSE IF InstanceOf(e, Head(ladder)) THEN Head(ladder)
  ELSE Branch(e, Tail(ladder))

\* C24: TimeoutError extends NetworkError and every class of the SDK extends
\* CarespaceError; an error made from an HTTP status is no NetworkError.  So
\* every error a call is rejected with is a CarespaceError, a TimeoutError is
\* also a NetworkError, and a caller testing NetworkError before TimeoutError
\* takes the NetworkError branch for a timeout, never the TimeoutError branch.
C24_Hierarchy ==
  /\ \A C \in SdkClasses : "CarespaceError" \in ProtoChain(C)
  /\ "NetworkError" \in ProtoChain("TimeoutError")
  /\ \A C \in StatusClasses : "NetworkError" \notin ProtoChain(C)
  /\ \A r \in DOMAIN reqs :
       Failed(reqs[r]) =>
         LET e == reqs[r].outcome.error
         IN /\ e.class \in SdkClasses
            /\ InstanceOf(e, "CarespaceError")
            /\ InstanceOf(e, "TimeoutError") => InstanceOf(e, "NetworkError")
            /\ HttpFailed(reqs[r]) => ~InstanceOf(e, "NetworkError")
            /\ Branch(e, <<"NetworkError", "TimeoutError">>) # "TimeoutError"
            /\ e.class = "TimeoutError" =>
                 /\ Branch(e, <<"NetworkError", "TimeoutError">>) = "NetworkError"
                 /\ Branch(e, <<"TimeoutError", "NetworkError">>) = "TimeoutError"

C24_Witness ==
  \E r \in DOMAIN reqs :
    /\ Failed(reqs[r])
    /\ reqs[r].outcome.error.name = "TimeoutError"
    /\ InstanceOf(reqs[r].outcome.error, "NetworkError")
    /\ Branch(reqs[r].outcome.error, <<"NetworkError", "TimeoutError">>) = "NetworkError"

\* C25: a call that was made settles: its promise is fulfilled with the body
\* of a response or rejected with one error, and stays so; a call whose
\* request the transport aborted on its timeout is rejected with a
\* TimeoutError instead of staying pending.
C25_EventuallySettles ==
  /\ (reqs[1].pc = "called") ~> (reqs[1].pc = "settled")
  /\ [](reqs[1].pc = "settled" =>
          \/ /\ reqs[1].outcome.state = "fulfilled"
             /\ reqs[1].outcome.value = reqs[1].delivery.data
          \/ /\ reqs[1].outcome.state = "rejected"
             /\ InstanceOf(reqs[1].outcome.error, "CarespaceError"))
  /\ [][reqs[1].pc = "settled" => reqs'[1] = reqs[1]]_vars
  /\ (reqs[1].pc = "delivered" /\ reqs[1].delivery.t = "error"
        /\ TimedOut(reqs[1].delivery))
       ~> (reqs[1].pc = "settled" /\ reqs[1].outcome.state = "rejected"
           /\ reqs[1].outcome.error.class = "TimeoutError")

C25_Witness ==
  /\ reqs[1].pc = "settled"
  /\ reqs[1].sends = 1
  /\ reqs[1].call.verb = "delete"
  /\ reqs[1].delivery.t = "error"
  /\ TimedOut(reqs[1].delivery)
  /\ reqs[1].outcome.state = "rejected"
  /\ reqs[1].outcome.error.message = Str(<<"Request timeout">>)

\* C26: no step changes what the transport was made with, nor the config; a
\* step that changes the key changes no call, and a step of a call (made,
\* intercepted, sent, answered, failed, settled) changes no key.
C26_OnlyKeyChanges ==
  [][/\ transport' = transport
     /\ settings' = settings
     /\ (apiKey' # apiKey \/ keyHistory' # keyHistory) => reqs' = reqs
     /\ reqs' # reqs => apiKey' = apiKey /\ keyHistory' = keyHistory]_vars

\* The key was changed and a call failed, and the transport is still the one
\* of the constructor.
C26_Witness ==
  /\ settings.timeout = Num(5000)
  /\ settings.apiKey = Key1
  /\ apiKey = Key2
  /\ Failed(reqs[1])
  /\ reqs[1].outcome.error.class = "AuthenticationError"
  /\ transport = [ baseURL |-> Str(<<"https://api.test.com">>),
                   timeout |-> Num(5000),
                   headers |-> JsonHeaders ]

\* C27: get of BaseAPI is client.get of buildUrl(path, params) followed by
\* buildQueryParams(queryParams); post, put and patch are the client's verb of
\* the same name with buildUrl(path, params) and the body, without a query
\* string; delete is client.delete of buildUrl(path, params) without a body;
\* none passes options, and the call settles with the client's result.
C27_BaseVerbs ==
  \A r \in DOMAIN reqs :
    BaseCall(r) =>
      /\ reqs[r].call.verb = via[r].method
      /\ reqs[r].call.options = undefined
      /\ BuiltPath(r) = buildUrl(PathArg(r), ParamsArg(r)).v
      /\ via[r].method = "get" =>
           /\ reqs[r].call.url =
                Str(buildUrl(via[r].args[1], via[r].args[2]).v
                    \o buildQueryParams(via[r].args[3]).v)
           /\ reqs[r].call.data = undefined
      /\ via[r].method \in {"post", "put", "patch"} =>
           /\ reqs[r].call.url = buildUrl(via[r].args[1], via[r].args[3])
           /\ reqs[r].call.data = via[r].args[2]
           /\ BuiltQuery(r) = <<>>
      /\ via[r].method = "delete" =>
           /\ reqs[r].call.url = buildUrl(via[r].args[1], via[r].args[2])
           /\ reqs[r].call.data = undefined
           /\ BuiltQuery(r) = <<>>
      /\ reqs[r].pc = "settled" => reqs[r].outcome = Settled(reqs[r].delivery)

C27_Witness ==
  \E r \in DOMAIN reqs :
    /\ BaseCall(r)
    /\ via[r].method = "put"
    /\ via[r].args = <<Str(<<"/users/", "{", "id", "}">>),
                        Body(Str(<<"hello">>), undefined, undefined),
                        Obj(<<Entry(<<"id">>, Num(7))>>)>>
    /\ reqs[r].pc = "settled"
    /\ reqs[r].method = Str(<<"put">>)
    /\ reqs[r].url = Str(<<"/users/", "7">>)
    /\ reqs[r].data = Body(Str(<<"hello">>), undefined, undefined)
    /\ reqs[r].outcome = [state |-> "fulfilled", value |-> Arr(<<"/users/", "7">>)]

\* C28: an error for a request that got no response, or that failed while
\* being set up, has statusCode null and response null; an error made from a
\* response has the status of the response as its statusCode.
C28_NoStatusWithoutResponse ==
  \A r \in DOMAIN reqs :
    /\ Unanswered(reqs[r]) \/ SetupFailed(reqs[r]) =>
         /\ InstanceOf(reqs[r].outcome.error, "NetworkError")
         /\ reqs[r].outcome.error.statusCode = null
         /\ reqs[r].outcome.error.response = null
    /\ HttpFailed(reqs[r]) =>
         /\ reqs[r].outcome.error.statusCode # null
         /\ reqs[r].outcome.error.statusCode.t = "number"
         /\ reqs[r].outcome.error.statusCode.v = reqs[r].delivery.response.status
         /\ reqs[r].outcome.error.response # null

C28_Witness ==
  \E r \in DOMAIN reqs :
    /\ Unanswered(reqs[r])
    /\ reqs[r].delivery.code = Str(<<"ERR_NETWORK">>)
    /\ reqs[r].outcome.error.class = "NetworkError"
    /\ reqs[r].outcome.error.statusCode = null
    /\ reqs[r].outcome.error.response = null

\* A mapping with its entries in the opposite order.
Reversed(mapping) ==
  Obj([i \in 1..Len(Given(mapping)) |-> Given(mapping)[Len(Given(mapping)) + 1 - i]])

\* The entries whose placeholder is in the template.
Replaced(template, mapping) ==
  { i \in 1..Len(Given(mapping)) :
      Occurrences(template, Placeholder(Given(mapping)[i].key)) > 0 }

\* C29: a value is written into the path encoded, so no brace of a value gets
\* into the path (the path has the braces of the template less one pair per
\* placeholder replaced) and no later key finds a placeholder in a value; with
\* every placeholder at most once in the template, the mapping with its keys
\* in the opposite order gives the same path.
C29_NoChaining ==
  \A r \in DOMAIN reqs :
    BaseCall(r) =>
      /\ Occurrences(BuiltPath(r), <<"{">>) =
           Occurrences(PathArg(r).v, <<"{">>)
             - Cardinality(Replaced(PathArg(r).v, ParamsArg(r)))
      /\ Occurrences(BuiltPath(r), <<"}">>) =
           Occurrences(PathArg(r).v, <<"}">>)
             - Cardinality(Replaced(PathArg(r).v, ParamsArg(r)))
      /\ (\A i \in 1..Len(Given(ParamsArg(r))) :
            Occurrences(PathArg(r).v, Placeholder(Given(ParamsArg(r))[i].key)) <= 1)
         => BuiltPath(r) = buildUrl(PathArg(r), Reversed(ParamsArg(r))).v

\* The value of clientId reads {programId}, and programId is a later key.
C29_Witness ==
  \E r \in DOMAIN reqs :
    /\ BaseCall(r)
    /\ PathArg(r) = Str(<<"/clients/", "{", "clientId", "}",
                           "/programs/", "{", "programId", "}">>)
    /\ ParamsArg(r) = Obj(<<Entry(<<"clientId">>, Str(<<"{", "programId", "}">>)),
                            Entry(<<"programId">>, Str(<<"p1">>))>>)
    /\ BuiltPath(r) = <<"/clients/", "%7B", "programId", "%7D", "/programs/", "p1">>

\* C30: an entry whose value is an array gives as many pairs as the array has
\* elements, also for elements that are undefined, null or '': these give the
\* pairs name=undefined, name=null and name= .
C30_ElementsNotFiltered ==
  \A r \in DOMAIN reqs :
    QueryCall(r) =>
      \A i \in 1..Len(Given(QueryArg(r))) :
        LET e == Given(QueryArg(r))[i]
            pairs == PairsNamed(BuiltQuery(r), e.key)
        IN e.value.t = "array" =>
             /\ Len(pairs) = Len(e.value.v)
             /\ \A j \in 1..Len(pairs) :
                  /\ e.value.v[j] = undefined => pairs[j][2] = <<"undefined">>
                  /\ e.value.v[j] = null => pairs[j][2] = <<"null">>
                  /\ e.value.v[j] = Str(<<>>) => pairs[j][2] = <<>>

C30_Witness ==
  \E r \in DOMAIN reqs :
    /\ QueryCall(r)
    /\ reqs[r].pc = "intercepted"
    /\ QueryArg(r) = Obj(<<Entry(<<"ids">>, Arr(<<Num(0), Str(<<>>), null, undefined>>))>>)
    /\ BuiltQuery(r) = <<"?", "ids", "=", "0", "&", "ids", "=", "&", "ids", "=", "null",
                          "&", "ids", "=", "undefined">>

====
